---------------------------- MODULE Spec2Model ----------------------------
(***************************************************************************)
(* Model of the WagerWire bet settlement engine (src/js/betting-engine.js) *)
(* and of the part of BettingSimulation.settleBet (src/js/simulation.js)   *)
(* that drives it: classify the bet, compute the payout, map the emotion.  *)
(*                                                                         *)
(* JavaScript strings are sequences of one-character strings.  JavaScript  *)
(* numbers are records: a finite number carries its value in thousandths   *)
(* (0.25 is Num(250), one goal is Num(1000)); NaN and undefined are values *)
(* of their own.  The arithmetic is exact decimal arithmetic: the inputs   *)
(* are chosen so that IEEE doubles give the same comparisons (quarter      *)
(* multiples are exact in binary, and no off-grid line sits on a rounding  *)
(* tie).                                                                   *)
(***************************************************************************)
EXTENDS Integers, Sequences, FiniteSets, TLC

(***************************************************************************)
(* Bounds of the model.                                                    *)
(***************************************************************************)
MaxGoals == 2        \* goals per side in a current score, 0..MaxGoals
MaxBetGoals == 1     \* goals per side in a bet-time score, 0..MaxBetGoals
MaxLineQ == 4        \* quarter lines range over -MaxLineQ/4 .. MaxLineQ/4
MaxStake == 2        \* stakes range over 100, 200, .., 100 * MaxStake

(***************************************************************************)
(* JavaScript numbers.                                                     *)
(***************************************************************************)
Num(v) == [k |-> "num", v |-> v]
NaN == [k |-> "nan", v |-> 0]
Undefined == [k |-> "undef", v |-> 0]
IsNum(x) == x.k = "num"

\* a + b, a - b, a * b: NaN when either operand is NaN or undefined
Add(a, b) == IF IsNum(a) /\ IsNum(b) THEN Num(a.v + b.v) ELSE NaN
Sub(a, b) == IF IsNum(a) /\ IsNum(b) THEN Num(a.v - b.v) ELSE NaN
Mul(a, b) == IF IsNum(a) /\ IsNum(b) THEN Num((a.v * b.v) \div 1000) ELSE NaN

\* a >= b and a === b: false when either operand is NaN
Ge(a, b) == IsNum(a) /\ IsNum(b) /\ a.v >= b.v
StrictEq(a, b) == IsNum(a) /\ IsNum(b) /\ a.v = b.v

\* Round2 rounding to one decimal, Math.round(x * 10) / 10
C7_mut_Round2(x) == IF IsNum(x) THEN Num(((x.v + 50) \div 100) * 100) ELSE NaN

\* Math.round(x * 100) / 100: to the nearest hundredth, ties towards +Infinity
Round2(x) == IF IsNum(x) THEN Num(((x.v + 5) \div 10) * 10) ELSE NaN

(***************************************************************************)
(* JavaScript strings and the conversions between strings and numbers.     *)
(***************************************************************************)
Null == <<"null">>   \* the value null (no string has a character "null")

DigitChars == <<"0", "1", "2", "3", "4", "5", "6", "7", "8", "9">>
IsDigit(c) == \E i \in 1..Len(DigitChars) : DigitChars[i] = c
DigitVal(c) == (CHOOSE i \in 1..Len(DigitChars) : DigitChars[i] = c) - 1

RECURSIVE DecVal(_)
DecVal(s) == IF s = <<>> THEN 0
             ELSE 10 * DecVal(SubSeq(s, 1, Len(s) - 1)) + DigitVal(s[Len(s)])

RECURSIVE IntToStr(_)
IntToStr(n) == IF n < 10 THEN <<DigitChars[n + 1]>>
               ELSE IntToStr(n \div 10) \o <<DigitChars[(n % 10) + 1]>>

Abs(n) == IF n < 0 THEN 0 - n ELSE n

RECURSIVE StripZeros(_)
StripZeros(s) == IF s # <<>> /\ s[Len(s)] = "0"
                 THEN StripZeros(SubSeq(s, 1, Len(s) - 1)) ELSE s

\* the three decimals of f thousandths, trailing zeros dropped
FracStr(f) == StripZeros(<<DigitChars[(f \div 100) + 1],
                           DigitChars[((f \div 10) % 10) + 1],
                           DigitChars[(f % 10) + 1]>>)

\* Number.prototype.toString / template-literal conversion of a number
NumToStr(x) ==
    IF x.k = "nan" THEN <<"N", "a", "N">>
    ELSE IF x.k = "undef" THEN <<"u", "n", "d", "e", "f", "i", "n", "e", "d">>
    ELSE (IF x.v < 0 THEN <<"-">> ELSE <<>>)
         \o IntToStr(Abs(x.v) \div 1000)
         \o (IF Abs(x.v) % 1000 = 0 THEN <<>>
             ELSE <<".">> \o FracStr(Abs(x.v) % 1000))

\* the longest prefix of s made of digits
LeadingDigits(s) ==
    LET n == CHOOSE n \in 0..Len(s) :
                 /\ \A i \in 1..n : IsDigit(s[i])
                 /\ (n < Len(s) => ~IsDigit(s[n + 1]))
    IN SubSeq(s, 1, n)

IsSpace(c) == c = " "

\* String.prototype.trim
RECURSIVE Trim(_)
Trim(s) == IF s # <<>> /\ IsSpace(s[1]) THEN Trim(Tail(s))
           ELSE IF s # <<>> /\ IsSpace(s[Len(s)]) THEN Trim(SubSeq(s, 1, Len(s) - 1))
           ELSE s

\* s.replace(/\s/g, '')
RemoveWhitespace(s) == SelectSeq(s, LAMBDA c : ~IsSpace(c))

\* the thousandths written by up to three fraction digits
Frac1000(fp) ==
    LET d(i) == IF i <= Len(fp) THEN DigitVal(fp[i]) ELSE 0
    IN 100 * d(1) + 10 * d(2) + d(3)

\* parseFloat: optional sign, digits, optional fraction; NaN without a digit
ParseFloat(str) ==
    LET s == Trim(str)
        neg == s # <<>> /\ s[1] = "-"
        body == IF s # <<>> /\ s[1] \in {"-", "+"} THEN Tail(s) ELSE s
        ip == LeadingDigits(body)
        rest == SubSeq(body, Len(ip) + 1, Len(body))
        fp == IF rest # <<>> /\ rest[1] = "." THEN LeadingDigits(Tail(rest)) ELSE <<>>
        mag == DecVal(ip) * 1000 + Frac1000(fp)
    IN IF ip = <<>> /\ fp = <<>> THEN NaN
       ELSE Num(IF neg THEN 0 - mag ELSE mag)

\* parseInt: optional sign, leading digits; NaN without a digit
ParseInt(str) ==
    LET s == Trim(str)
        neg == s # <<>> /\ s[1] = "-"
        body == IF s # <<>> /\ s[1] \in {"-", "+"} THEN Tail(s) ELSE s
        ip == LeadingDigits(body)
    IN IF ip = <<>> THEN NaN
       ELSE Num((IF neg THEN 0 - DecVal(ip) ELSE DecVal(ip)) * 1000)

\* Number(s) on a string of digits, spaces and other characters: the empty
\* or blank string is 0, a digit string is its value, anything else is NaN
ToNumber(str) ==
    LET s == Trim(str)
    IN IF s = <<>> THEN Num(0)
       ELSE IF \A i \in 1..Len(s) : IsDigit(s[i]) THEN Num(DecVal(s) * 1000)
       ELSE NaN

\* s.split('-')
RECURSIVE SplitDash(_)
SplitDash(s) ==
    IF \A i \in 1..Len(s) : s[i] # "-" THEN <<s>>
    ELSE LET i == CHOOSE i \in 1..Len(s) :
                      s[i] = "-" /\ \A j \in 1..(i - 1) : s[j] # "-"
         IN <<SubSeq(s, 1, i - 1)>> \o SplitDash(SubSeq(s, i + 1, Len(s)))

\* s.startsWith(prefix)
StartsWith(s, prefix) ==
    /\ Len(prefix) <= Len(s)
    /\ \A i \in 1..Len(prefix) : s[i] = prefix[i]

(***************************************************************************)
(* String constants of the engine.                                         *)
(***************************************************************************)
HomeTeam == <<"H", "o", "m", "e", " ", "T", "e", "a", "m">>
AwayTeam == <<"A", "w", "a", "y", " ", "T", "e", "a", "m">>
Over == <<"O", "v", "e", "r">>
Under == <<"U", "n", "d", "e", "r">>
NA == <<"N", "/", "A">>

Win == <<"W", "i", "n">>
HalfWin == <<"H", "a", "l", "f", " ", "W", "i", "n">>
Push == <<"P", "u", "s", "h">>
HalfLoss == <<"H", "a", "l", "f", " ", "L", "o", "s", "s">>
Loss == <<"L", "o", "s", "s">>
Pending == <<"P", "e", "n", "d", "i", "n", "g">>

(***************************************************************************)
(* calculateEnhancedPredictedResult                                        *)
(***************************************************************************)
\* const line = parseFloat(selectionLine.toString())
ParseLine(selectionLine) == ParseFloat(NumToStr(selectionLine))

\* const [currentHomeGoals, currentAwayGoals] = currentScore.split('-').map(Number)
CurrentGoals(currentScore) ==
    LET parts == SplitDash(currentScore)
    IN [home |-> ToNumber(parts[1]),
        away |-> IF Len(parts) >= 2 THEN ToNumber(parts[2]) ELSE Undefined]

\* the goals to subtract, when the bet-time score is usable; otherwise none
BetTimeGoals(betTimeScore) ==
    IF betTimeScore # Null /\ betTimeScore # <<>> /\ betTimeScore # NA
    THEN LET betScoreParts == SplitDash(RemoveWhitespace(betTimeScore))
         IN IF Len(betScoreParts) = 2
            THEN LET betHomeGoals == ParseInt(betScoreParts[1])
                     betAwayGoals == ParseInt(betScoreParts[2])
                 IN IF IsNum(betHomeGoals) /\ IsNum(betAwayGoals)
                    THEN [used |-> TRUE, home |-> betHomeGoals, away |-> betAwayGoals]
                    ELSE [used |-> FALSE, home |-> NaN, away |-> NaN]
            ELSE [used |-> FALSE, home |-> NaN, away |-> NaN]
    ELSE [used |-> FALSE, home |-> NaN, away |-> NaN]

\* AdjustedGoals with the bet-time score never subtracted
C2_mut_AdjustedGoals(betTimeScore, currentScore) == CurrentGoals(currentScore)

\* AdjustedGoals starting from 0-0 instead of the current goals
C8_mut_AdjustedGoals(betTimeScore, currentScore) ==
    LET cur == CurrentGoals(currentScore)
        bet == BetTimeGoals(betTimeScore)
    IN IF bet.used
       THEN [home |-> Sub(cur.home, bet.home), away |-> Sub(cur.away, bet.away)]
       ELSE [home |-> Num(0), away |-> Num(0)]

\* adjustedHomeGoals, adjustedAwayGoals: goals scored since the bet was placed
AdjustedGoals(betTimeScore, currentScore) ==
    LET cur == CurrentGoals(currentScore)
        bet == BetTimeGoals(betTimeScore)
    IN IF bet.used
       THEN [home |-> Sub(cur.home, bet.home), away |-> Sub(cur.away, bet.away)]
       ELSE cur

\* goalDiff + line, rounded, for Home Team / Away Team
HandicapMargin(selectionCombo, line, adjusted) ==
    LET goalDiff == IF selectionCombo = HomeTeam
                    THEN Sub(adjusted.home, adjusted.away)
                    ELSE Sub(adjusted.away, adjusted.home)
        adjustedScore == Add(goalDiff, line)
    IN Round2(adjustedScore)

\* the if-chain writing the two half classes 'HalfWin' and 'HalfLoss'
C15_mut_HandicapClass(rounded) ==
    IF Ge(rounded, Num(500)) THEN Win
    ELSE IF StrictEq(rounded, Num(250)) THEN <<"H", "a", "l", "f", "W", "i", "n">>
    ELSE IF StrictEq(rounded, Num(0)) THEN Push
    ELSE IF StrictEq(rounded, Num(-250))
    THEN <<"H", "a", "l", "f", "L", "o", "s", "s">>
    ELSE Loss

\* the if-chain on the rounded handicap margin
HandicapClass(rounded) ==
    IF Ge(rounded, Num(500)) THEN Win
    ELSE IF StrictEq(rounded, Num(250)) THEN HalfWin
    ELSE IF StrictEq(rounded, Num(0)) THEN Push
    ELSE IF StrictEq(rounded, Num(-250)) THEN HalfLoss
    ELSE Loss

\* TotalGoals summing the goals scored since the bet was placed
C3_mut_TotalGoals(current, adjusted) == Add(adjusted.home, adjusted.away)

\* totalGoals = currentHomeGoals + currentAwayGoals (the full-time score)
TotalGoals(current, adjusted) == Add(current.home, current.away)

\* totalGoals - line or line - totalGoals, rounded, for Over / Under
TotalsMargin(selectionCombo, line, totalGoals) ==
    LET diff == IF selectionCombo = Over
                THEN Sub(totalGoals, line)
                ELSE Sub(line, totalGoals)
    IN Round2(diff)

\* TotalsClass with `rounded > 0.5` for the Win test
C1_mut_TotalsClass(rounded) ==
    IF IsNum(rounded) /\ rounded.v > 500 THEN Win
    ELSE IF StrictEq(rounded, Num(250)) THEN HalfWin
    ELSE IF StrictEq(rounded, Num(0)) THEN Push
    ELSE IF StrictEq(rounded, Num(-250)) THEN HalfLoss
    ELSE Loss

\* the if-chain on the rounded totals margin
TotalsClass(rounded) ==
    IF Ge(rounded, Num(500)) THEN Win
    ELSE IF StrictEq(rounded, Num(250)) THEN HalfWin
    ELSE IF StrictEq(rounded, Num(0)) THEN Push
    ELSE IF StrictEq(rounded, Num(-250)) THEN HalfLoss
    ELSE Loss

\* ` - ${selectionCombo} (${line}) (${adjustedHomeGoals}-${adjustedAwayGoals})`
HandicapDetail(selectionCombo, line, adjusted) ==
    <<" ", "-", " ">> \o selectionCombo \o <<" ", "(">> \o NumToStr(line)
    \o <<")", " ", "(">> \o NumToStr(adjusted.home) \o <<"-">>
    \o NumToStr(adjusted.away) \o <<")">>

\* ` - ${selectionCombo} (${line}) (${totalGoals} goals)`
TotalsDetail(selectionCombo, line, totalGoals) ==
    <<" ", "-", " ">> \o selectionCombo \o <<" ", "(">> \o NumToStr(line)
    \o <<")", " ", "(">> \o NumToStr(totalGoals)
    \o <<" ", "g", "o", "a", "l", "s", ")">>

\* Evaluate with the totals branch taken for 'Over' only
C6_mut_Evaluate(selectionCombo, selectionLine, betTimeScore, currentScore) ==
    LET line == ParseLine(selectionLine)
        current == CurrentGoals(currentScore)
        adjusted == AdjustedGoals(betTimeScore, currentScore)
    IN IF selectionCombo = HomeTeam \/ selectionCombo = AwayTeam
       THEN LET rounded == HandicapMargin(selectionCombo, line, adjusted)
            IN [rounded |-> rounded,
                result |-> HandicapClass(rounded)
                           \o HandicapDetail(selectionCombo, line, adjusted)]
       ELSE IF selectionCombo = Over
       THEN LET totalGoals == TotalGoals(current, adjusted)
                rounded == TotalsMargin(selectionCombo, line, totalGoals)
            IN [rounded |-> rounded,
                result |-> TotalsClass(rounded)
                           \o TotalsDetail(selectionCombo, line, totalGoals)]
       ELSE [rounded |-> Undefined, result |-> Pending]

\* the body of calculateEnhancedPredictedResult: the returned string, and the
\* local `rounded` (undefined when neither branch runs)
Evaluate(selectionCombo, selectionLine, betTimeScore, currentScore) ==
    LET line == ParseLine(selectionLine)
        current == CurrentGoals(currentScore)
        adjusted == AdjustedGoals(betTimeScore, currentScore)
    IN IF selectionCombo = HomeTeam \/ selectionCombo = AwayTeam
       THEN LET rounded == HandicapMargin(selectionCombo, line, adjusted)
            IN [rounded |-> rounded,
                result |-> HandicapClass(rounded)
                           \o HandicapDetail(selectionCombo, line, adjusted)]
       ELSE IF selectionCombo = Over \/ selectionCombo = Under
       THEN LET totalGoals == TotalGoals(current, adjusted)
                rounded == TotalsMargin(selectionCombo, line, totalGoals)
            IN [rounded |-> rounded,
                result |-> TotalsClass(rounded)
                           \o TotalsDetail(selectionCombo, line, totalGoals)]
       ELSE [rounded |-> Undefined, result |-> Pending]

calculateEnhancedPredictedResult(selectionCombo, selectionLine, betTimeScore, currentScore) ==
    Evaluate(selectionCombo, selectionLine, betTimeScore, currentScore).result

(***************************************************************************)
(* calculatePayout, getEmotionFromResult, getInProgressEmotion             *)
(***************************************************************************)
\* s.includes(part)
Includes(s, part) ==
    \E i \in 1..(Len(s) - Len(part) + 1) : SubSeq(s, i, i + Len(part) - 1) = part

\* calculatePayout testing result.includes(..) instead of result.startsWith(..)
C4_mut_calculatePayout(result, stake, odds) ==
    LET stakeNum == ParseFloat(NumToStr(stake))
        oddsNum == ParseFloat(NumToStr(odds))
    IN IF Includes(result, Win) THEN Mul(stakeNum, oddsNum)
       ELSE IF Includes(result, HalfWin)
       THEN Add(stakeNum, Mul(Mul(stakeNum, Sub(oddsNum, Num(1000))), Num(500)))
       ELSE IF Includes(result, Push) THEN stakeNum
       ELSE IF Includes(result, HalfLoss) THEN Mul(stakeNum, Num(500))
       ELSE Num(0)

\* calculatePayout paying a Half Win stake + stake * odds * 0.5
C5_mut_calculatePayout(result, stake, odds) ==
    LET stakeNum == ParseFloat(NumToStr(stake))
        oddsNum == ParseFloat(NumToStr(odds))
    IN IF StartsWith(result, Win) THEN Mul(stakeNum, oddsNum)
       ELSE IF StartsWith(result, HalfWin)
       THEN Add(stakeNum, Mul(Mul(stakeNum, oddsNum), Num(500)))
       ELSE IF StartsWith(result, Push) THEN stakeNum
       ELSE IF StartsWith(result, HalfLoss) THEN Mul(stakeNum, Num(500))
       ELSE Num(0)

calculatePayout(result, stake, odds) ==
    LET stakeNum == ParseFloat(NumToStr(stake))
        oddsNum == ParseFloat(NumToStr(odds))
    IN IF StartsWith(result, Win) THEN Mul(stakeNum, oddsNum)
       ELSE IF StartsWith(result, HalfWin)
       THEN Add(stakeNum, Mul(Mul(stakeNum, Sub(oddsNum, Num(1000))), Num(500)))
       ELSE IF StartsWith(result, Push) THEN stakeNum
       ELSE IF StartsWith(result, HalfLoss) THEN Mul(stakeNum, Num(500))
       ELSE Num(0)

\* getEmotionFromResult testing result.includes(..) instead of startsWith(..)
C13_mut_getEmotionFromResult(result) ==
    IF Includes(result, Win) THEN <<"j", "o", "y">>
    ELSE IF Includes(result, HalfWin) THEN <<"r", "e", "l", "i", "e", "f">>
    ELSE IF Includes(result, Push) THEN <<"n", "e", "u", "t", "r", "a", "l">>
    ELSE IF Includes(result, HalfLoss) THEN <<"a", "n", "n", "o", "y", "e", "d">>
    ELSE IF Includes(result, Loss) THEN <<"a", "n", "g", "e", "r">>
    ELSE <<"t", "h", "i", "n", "k", "i", "n", "g">>

\* the state field of the emotion object
getEmotionFromResult(result) ==
    IF StartsWith(result, Win) THEN <<"j", "o", "y">>
    ELSE IF StartsWith(result, HalfWin) THEN <<"r", "e", "l", "i", "e", "f">>
    ELSE IF StartsWith(result, Push) THEN <<"n", "e", "u", "t", "r", "a", "l">>
    ELSE IF StartsWith(result, HalfLoss) THEN <<"a", "n", "n", "o", "y", "e", "d">>
    ELSE IF StartsWith(result, Loss) THEN <<"a", "n", "g", "e", "r">>
    ELSE <<"t", "h", "i", "n", "k", "i", "n", "g">>

\* getInProgressEmotion without the tests of 'Half Win' and 'Half Loss'
C14_mut_getInProgressEmotion(prediction) ==
    IF StartsWith(prediction, Win) THEN <<"h", "o", "p", "e", "f", "u", "l">>
    ELSE IF StartsWith(prediction, Loss) THEN <<"w", "o", "r", "r", "i", "e", "d">>
    ELSE <<"n", "e", "u", "t", "r", "a", "l">>

\* the state field of the in-progress emotion object
getInProgressEmotion(prediction) ==
    IF StartsWith(prediction, Win) \/ StartsWith(prediction, HalfWin)
    THEN <<"h", "o", "p", "e", "f", "u", "l">>
    ELSE IF StartsWith(prediction, Loss) \/ StartsWith(prediction, HalfLoss)
    THEN <<"w", "o", "r", "r", "i", "e", "d">>
    ELSE <<"n", "e", "u", "t", "r", "a", "l">>

(***************************************************************************)
(* The inputs of an evaluation.                                            *)
(***************************************************************************)
\* `${home}-${away}`
FormatScore(home, away) == IntToStr(home) \o <<"-">> \o IntToStr(away)
\* the same score written " H - A " (the bet-time score tolerates whitespace)
SpacedScore(home, away) ==
    <<" ">> \o IntToStr(home) \o <<" ", "-", " ">> \o IntToStr(away)

Goals == 0..MaxGoals
BetGoals == 0..MaxBetGoals
Draw == <<"D", "r", "a", "w">>
SelectionCombos == {HomeTeam, AwayTeam, Over, Under, Draw}

\* the lines that are multiples of 0.25, and three that are not
QuarterLines == {Num(250 * q) : q \in (0 - MaxLineQ)..MaxLineQ}
OffGridLines == {Num(100), Num(-300), Num(254)}
Lines == QuarterLines \cup OffGridLines

\* score strings that do not hold two non-negative integers
BadScores == {<<"x">>, <<"1">>, <<"1", "-", "x">>, <<"2", "-">>}
BadBetTimeScores == BadScores \cup {<<"1", "-", "1", "x">>}
CurrentScores == {FormatScore(h, a) : h, a \in Goals} \cup BadScores
BetTimeScores ==
    {Null, <<>>, NA}
    \cup {FormatScore(h, a) : h, a \in BetGoals}
    \cup {SpacedScore(h, h) : h \in BetGoals}
    \cup BadBetTimeScores

Stakes == {Num(100000 * n) : n \in 1..MaxStake}
OddsSet == {Num(500), Num(1000), Num(1860), Num(2500)}

(***************************************************************************)
(* The simulation (BettingSimulation): the rows of the characters table,   *)
(* the event the bets are on, and the state of the object.                 *)
(***************************************************************************)
\* bounds of the simulation
MaxRows == 2
MaxEventGoals == 1
MaxRuns == 2
MaxStarts == 1

Benny == <<"B", "e", "n", "n", "y">>
Max == <<"M", "a", "x">>
Ellie == <<"E", "l", "l", "i", "e">>
CharacterNames == {Benny, Max, Ellie}

\* String.prototype.toLowerCase, on the letters the rows use
ToLowerChar(c) ==
    CASE c = "A" -> "a" [] c = "B" -> "b" [] c = "E" -> "e" [] c = "G" -> "g"
      [] c = "H" -> "h" [] c = "M" -> "m" [] c = "O" -> "o" [] c = "S" -> "s"
      [] c = "T" -> "t" [] c = "U" -> "u" [] c = "V" -> "v"
      [] OTHER -> c
ToLowerCase(s) == [i \in 1..Len(s) |-> ToLowerChar(s[i])]

\* bet.stake.replace(/[£$€,]/g, '')
RemoveCurrency(s) == SelectSeq(s, LAMBDA c : c \notin {"£", "$", "€", ","})

\* rows of the characters table: character, stake (a string, a number or
\* missing), price, recommendation, selection_line, bet_time_score
MaxRomano == <<"M", "a", "x", " ", "R", "o", "m", "a", "n", "o">>
BennyDoyle == <<"B", "e", "n", "n", "y", " ", "D", "o", "y", "l", "e">>
BackOver == <<"B", "a", "c", "k", " ", "O", "v", "e", "r">>
AsianHandicap == <<"A", "s", "i", "a", "n", " ", "H", "a", "n", "d", "i", "c", "a", "p">>

\* the stake column holds a string, a number, or nothing
StringValue(s) == [t |-> "string", s |-> s]
NumberValue(n) == [t |-> "number", n |-> n]
Missing == [t |-> "undefined"]

Row(character, stakeField, priceField, recommendation, line) ==
    [character |-> character, stake |-> stakeField, price |-> priceField,
     recommendation |-> recommendation, selection_line |-> line,
     bet_time_score |-> FormatScore(0, 0)]

HandicapRow ==
    Row(MaxRomano, StringValue(<<"£", "2", "0", "0">>), Num(1860), AsianHandicap,
        Num(-500))
OverRow == Row(BennyDoyle, NumberValue(Num(150000)), Num(2000), BackOver, Num(500))
TableRows == {HandicapRow, OverRow}

\* the tables the simulation is run on: 1 .. MaxRows rows, the id of a row is
\* its position; all rows are bets on the same event
Tables ==
    UNION {[1..n -> TableRows] : n \in 1..MaxRows}

\* the character name loadExistingBets derives from the full name
CharacterOf(full) ==
    IF Includes(full, Max) \/ Includes(full, <<"S", "t", "a", "c", "k", "s">>) THEN Max
    ELSE IF Includes(full, Ellie) \/ Includes(full, <<"E", "V">>) THEN Ellie
    ELSE Benny

(***************************************************************************)
(* The state of the simulation.                                            *)
(*   table: the rows of the characters table (loadExistingBets reads them) *)
(*   event: status and score of the event, as the event API reports it     *)
(*   connected: supabaseClient.connected                                   *)
(*   isRunning, isPaused, betQueue, currentBetIndex, activeBets,           *)
(*     characters: the fields of BettingSimulation (of a character, the    *)
(*     bankroll, the active bets and the stats); betQueue holds            *)
(*     references into betObjects, activeBets is the Map in insertion      *)
(*     order, each entry [id, bet, seq] with seq its insertion rank        *)
(*   betObjects: the bet objects created by loadExistingBets, each with    *)
(*     its fields, parsedStake, and the record of what settleBet did with  *)
(*     it: settlements (number of times its payout was credited),          *)
(*     settledStake and payout (the locals of the last settleBet),         *)
(*     placedAfter (placeBet ran on it after a settlement) and idleAgain   *)
(*     (the timer of settleBet has returned its character to 'idle' since  *)
(*     its last settlement)                                                *)
(*   updateInterval: TRUE when this.updateInterval holds a timer id        *)
(*   inserted: number of Map insertions so far (rank of the next entry)    *)
(*   loading: number of start() calls waiting for loadExistingBets         *)
(*   starts: number of start() calls so far                                *)
(*   countdowns, intervals: live setInterval timers of startUpdateLoop     *)
(*     (the countdown one and the main one)                                *)
(*   walkTimers: pending setTimeout of startWalkingToBookie, each holding  *)
(*     its bet and its character object (stale: the object is one that     *)
(*     reset() has replaced since)                                         *)
(*   runs: the checkForBets invocations in progress; pc is "idle" (free),  *)
(*     "fetching" (awaiting the event of bet) or "next" (between two       *)
(*     entries of the iteration over activeBets, cursor = rank of the last *)
(*     entry visited)                                                      *)
(*   display: character.state and character.emotion of each character      *)
(*     (followed by the handlers of src/src/simulation.js below)           *)
(*   idleTimers: pending setTimeout of placeBet and settleBet that return  *)
(*     a character to 'idle'                                               *)
(***************************************************************************)
VARIABLES table, event, connected, isRunning, isPaused, updateInterval,
          betQueue, currentBetIndex, activeBets, characters, betObjects,
          inserted, loading, starts, countdowns, intervals, walkTimers, runs,
          display, idleTimers

simvars == <<table, event, connected, isRunning, isPaused, updateInterval,
             betQueue, currentBetIndex, activeBets, characters, betObjects,
             inserted, loading, starts, countdowns, intervals, walkTimers, runs,
             display, idleTimers>>

\* createCharacter(name); placements is not a field of the code: the number
\* of placeBet calls on this character object
createCharacter(name) ==
    [name |-> name,
     bankroll |-> Num(10000000),
     activeBets |-> <<>>,
     placements |-> 0,
     stats |-> [totalBets |-> 0, totalWins |-> 0, totalLosses |-> 0,
                totalStaked |-> Num(0), totalPayout |-> Num(0),
                netProfit |-> Num(0)]]

IdleRun == [pc |-> "idle", bet |-> 0, cursor |-> 0]

\* character.state and character.emotion of createCharacter
Idle == <<"i", "d", "l", "e">>
ReadyToBet ==
    [state |-> Idle,
     emotion |-> [state |-> <<"n", "e", "u", "t", "r", "a", "l">>,
                  description |-> "Ready to bet"]]

\* the object after the constructor, not connected; the event not started
Constructed ==
    /\ event = [status |-> "notstarted", homeScore |-> 0, awayScore |-> 0]
    /\ connected = FALSE
    /\ isRunning = FALSE
    /\ isPaused = FALSE
    /\ updateInterval = FALSE
    /\ betQueue = <<>>
    /\ currentBetIndex = 0
    /\ activeBets = <<>>
    /\ characters = [n \in CharacterNames |-> createCharacter(n)]
    /\ betObjects = <<>>
    /\ inserted = 0
    /\ loading = 0
    /\ starts = 0
    /\ countdowns = 0
    /\ intervals = 0
    /\ walkTimers = {}
    /\ runs = [r \in 1..MaxRuns |-> IdleRun]
    /\ display = [n \in CharacterNames |-> ReadyToBet]
    /\ idleTimers = {}

(***************************************************************************)
(* The state: one active bet with the event's score, and what the handlers *)
(* of the simulation have computed for it with the engine.                 *)
(*   selectionCombo, selectionLine, betTimeScore, currentScore: the        *)
(*     arguments the handler passes to calculateEnhancedPredictedResult    *)
(*   parsedStake, price: bet.parsedStake and bet.price                     *)
(*   rounded, result: the local `rounded` and the string returned by the   *)
(*     last call of calculateEnhancedPredictedResult                       *)
(*   stake, payout, emotion: the locals of settleBet (emotion is           *)
(*     character.emotion.state, also set by updateInProgressBet)           *)
(*   pc: "active" before any call, "inprogress" after                      *)
(*     updateInProgressBet, "settled" after settleBet                      *)
(***************************************************************************)
VARIABLES selectionCombo, selectionLine, betTimeScore, currentScore,
          parsedStake, price, rounded, result, stake, payout, emotion, pc

evalvars == <<selectionCombo, selectionLine, betTimeScore, currentScore,
              parsedStake, price, rounded, result, stake, payout, emotion, pc>>

vars == <<evalvars, simvars>>

bet == <<selectionCombo, selectionLine, betTimeScore, currentScore,
         parsedStake, price>>

\* Every combination of engine arguments, on a bet with no parsed stake at
\* odds 1.86; and every stake and odds on the bets that reach each outcome
\* (Home Team at 1-1 on the lines -0.5 .. 0.5) or none (an unknown selection).
Init ==
    /\ \/ /\ selectionCombo \in SelectionCombos
          /\ selectionLine \in Lines
          /\ betTimeScore \in BetTimeScores
          /\ currentScore \in CurrentScores
          /\ parsedStake = Undefined
          /\ price = Num(1860)
       \/ /\ selectionCombo \in {HomeTeam, Draw}
          /\ selectionLine \in {Num(250 * q) : q \in -2..2}
          /\ betTimeScore = Null
          /\ currentScore = FormatScore(1, 1)
          /\ parsedStake \in Stakes \cup {Undefined}
          /\ price \in OddsSet
    /\ rounded = Undefined
    /\ result = Null
    /\ stake = Undefined
    /\ payout = Undefined
    /\ emotion = Null
    /\ pc = "active"
    /\ table = <<>>
    /\ Constructed

\* const stake = bet.parsedStake || 100
StakeOf(parsed) ==
    IF IsNum(parsed) /\ parsed.v # 0 THEN parsed ELSE Num(100000)

\* settleBet, from the call of the engine to the emotion of the character
SettleBet ==
    /\ pc \in {"active", "inprogress"}
    /\ \E res \in {calculateEnhancedPredictedResult(
                       selectionCombo, selectionLine, betTimeScore, currentScore)},
          stk \in {StakeOf(parsedStake)} :
          /\ result' = res
          /\ stake' = stk
          /\ payout' = calculatePayout(res, stk, price)
          /\ emotion' = getEmotionFromResult(res)
    /\ rounded' = Evaluate(selectionCombo, selectionLine, betTimeScore,
                           currentScore).rounded
    /\ pc' = "settled"
    /\ UNCHANGED <<bet, simvars>>

\* updateInProgressBet: the prediction on the current score and its emotion
UpdateInProgressBet ==
    /\ pc = "active"
    /\ \E prediction \in {calculateEnhancedPredictedResult(
                              selectionCombo, selectionLine, betTimeScore, currentScore)} :
          /\ result' = prediction
          /\ emotion' = getInProgressEmotion(prediction)
    /\ rounded' = Evaluate(selectionCombo, selectionLine, betTimeScore,
                           currentScore).rounded
    /\ pc' = "inprogress"
    /\ UNCHANGED <<bet, stake, payout, simvars>>

Next == SettleBet \/ UpdateInProgressBet

Spec == Init /\ [][Next]_vars

\* the stake and the price of a row are whatever the table holds: a negative
\* number, or a price that is missing or not a number
InvalidStakes == {Num(-100000)}
InvalidOdds == {Num(-1860), NaN, Undefined}

\* bets reaching each outcome or none, with every stake and price a row can
\* carry, valid or not
InitAnyArgument ==
    /\ selectionCombo \in {HomeTeam, Draw}
    /\ selectionLine \in {Num(250 * q) : q \in -2..2}
    /\ betTimeScore = Null
    /\ currentScore = FormatScore(1, 1)
    /\ parsedStake \in Stakes \cup {Undefined} \cup InvalidStakes
    /\ price \in OddsSet \cup InvalidOdds
    /\ rounded = Undefined
    /\ result = Null
    /\ stake = Undefined
    /\ payout = Undefined
    /\ emotion = Null
    /\ pc = "active"
    /\ table = <<>>
    /\ Constructed

SpecAnyArgument == InitAnyArgument /\ [][Next]_vars

(***************************************************************************)
(* The simulation: the handlers of BettingSimulation, each action one      *)
(* handler from one await (or timer) to the next.                          *)
(***************************************************************************)
\* the simulation on one of the tables, before connecting
SimInit ==
    /\ table \in Tables
    /\ Constructed
    /\ selectionCombo = Null
    /\ selectionLine = Undefined
    /\ betTimeScore = Null
    /\ currentScore = Null
    /\ parsedStake = Undefined
    /\ price = Undefined
    /\ rounded = Undefined
    /\ result = Null
    /\ stake = Undefined
    /\ payout = Undefined
    /\ emotion = Null
    /\ pc = "active"

\* connectToSupabase succeeds
Connect ==
    /\ ~connected
    /\ connected' = TRUE
    /\ UNCHANGED <<evalvars, display, idleTimers,
                   table, event, isRunning, isPaused, updateInterval,
                   betQueue, currentBetIndex, activeBets, characters, betObjects,
                   inserted, loading, starts, countdowns, intervals, walkTimers, runs>>

\* start(), up to the await of loadExistingBets
Start ==
    /\ ~isRunning
    /\ connected
    /\ starts < MaxStarts
    /\ starts' = starts + 1
    /\ loading' = loading + 1
    /\ UNCHANGED <<evalvars, display, idleTimers,
                   table, event, connected, isRunning, isPaused,
                   updateInterval, betQueue, currentBetIndex, activeBets,
                   characters, betObjects, inserted, countdowns, intervals,
                   walkTimers, runs>>

\* the object loadExistingBets makes of row i of the table
QueuedBet(i) ==
    LET row == table[i]
    IN [id |-> i,
        character |-> CharacterOf(row.character),
        stake |-> IF row.stake = Missing THEN StringValue(<<"1", "0", "0">>)
                  ELSE row.stake,
        price |-> row.price,
        selection_combo |-> row.recommendation,
        selection_line |-> row.selection_line,
        bet_time_score |-> row.bet_time_score,
        parsedStake |-> Undefined,
        settlements |-> 0,
        settledStake |-> Undefined,
        payout |-> Undefined,
        placedAfter |-> FALSE,
        idleAgain |-> FALSE]

\* loadExistingBets returns the rows; start() sets isRunning and calls
\* startUpdateLoop, which creates the two intervals
LoadDone ==
    /\ loading > 0
    /\ loading' = loading - 1
    /\ betObjects' = betObjects \o [i \in 1..Len(table) |-> QueuedBet(i)]
    /\ betQueue' = [i \in 1..Len(table) |-> Len(betObjects) + i]
    /\ currentBetIndex' = 0
    /\ isRunning' = TRUE
    /\ isPaused' = FALSE
    /\ updateInterval' = TRUE
    /\ countdowns' = countdowns + 1
    /\ intervals' = intervals + 1
    /\ UNCHANGED <<evalvars, display, idleTimers,
                   table, event, connected, activeBets, characters,
                   inserted, starts, walkTimers, runs>>

\* pause(): the button toggles isPaused while the simulation runs
Pause ==
    /\ isRunning
    /\ isPaused' = ~isPaused
    /\ UNCHANGED <<evalvars, display, idleTimers,
                   table, event, connected, isRunning, updateInterval,
                   betQueue, currentBetIndex, activeBets, characters, betObjects,
                   inserted, loading, starts, countdowns, intervals, walkTimers, runs>>

\* reset(): the countdown interval held by updateInterval is cleared, the
\* characters are replaced by new objects, the Map and the queue are emptied
Reset ==
    /\ isRunning' = FALSE
    /\ isPaused' = FALSE
    /\ updateInterval' = FALSE
    /\ countdowns' = IF updateInterval THEN countdowns - 1 ELSE countdowns
    /\ characters' = [n \in CharacterNames |-> createCharacter(n)]
    /\ activeBets' = <<>>
    /\ betQueue' = <<>>
    /\ currentBetIndex' = 0
    /\ walkTimers' = {[t EXCEPT !.stale = TRUE] : t \in walkTimers}
    /\ UNCHANGED <<evalvars, display, idleTimers,
                   table, event, connected, betObjects, inserted,
                   loading, starts, intervals, runs>>

\* the event, as the event API will report it: kick-off, goals, full time
KickOff ==
    /\ event.status = "notstarted"
    /\ event' = [event EXCEPT !.status = "inprogress"]
    /\ UNCHANGED <<evalvars, display, idleTimers,
                   table, connected, isRunning, isPaused,
                   updateInterval, betQueue, currentBetIndex, activeBets,
                   characters, betObjects, inserted, loading, starts, countdowns,
                   intervals, walkTimers, runs>>

Goal ==
    /\ event.status = "inprogress"
    /\ event.homeScore + event.awayScore < MaxEventGoals
    /\ \/ event' = [event EXCEPT !.homeScore = @ + 1]
       \/ event' = [event EXCEPT !.awayScore = @ + 1]
    /\ UNCHANGED <<evalvars, display, idleTimers,
                   table, connected, isRunning, isPaused,
                   updateInterval, betQueue, currentBetIndex, activeBets,
                   characters, betObjects, inserted, loading, starts, countdowns,
                   intervals, walkTimers, runs>>

FullTime ==
    /\ event.status = "inprogress"
    /\ event' = [event EXCEPT !.status = "finished"]
    /\ UNCHANGED <<evalvars, display, idleTimers,
                   table, connected, isRunning, isPaused,
                   updateInterval, betQueue, currentBetIndex, activeBets,
                   characters, betObjects, inserted, loading, starts, countdowns,
                   intervals, walkTimers, runs>>

\* the event is canceled (a status checkBetStatus of src/js/simulation.js
\* takes for an event that has not started)
Cancel ==
    /\ event.status \in {"notstarted", "inprogress"}
    /\ event' = [event EXCEPT !.status = "canceled"]
    /\ UNCHANGED <<evalvars, display, idleTimers, table, connected, isRunning,
                   isPaused, updateInterval, betQueue, currentBetIndex,
                   activeBets, characters, betObjects, inserted, loading,
                   starts, countdowns, intervals, walkTimers, runs>>

\* Map.prototype.set: a new key is appended, an existing key keeps its place
MapSet(map, id, ref, seq) ==
    IF \E i \in 1..Len(map) : map[i].id = id
    THEN [i \in 1..Len(map) |->
             IF map[i].id = id THEN [map[i] EXCEPT !.bet = ref] ELSE map[i]]
    ELSE Append(map, [id |-> id, bet |-> ref, seq |-> seq])

\* Map.prototype.delete
MapDelete(map, id) == SelectSeq(map, LAMBDA e : e.id # id)

\* the step of the Map iterator: the first entry inserted after the last one
\* visited, 0 when there is none
NextEntry(map, cursor) ==
    IF \E i \in 1..Len(map) : map[i].seq > cursor
    THEN CHOOSE i \in 1..Len(map) :
             /\ map[i].seq > cursor
             /\ \A j \in 1..(i - 1) : map[j].seq <= cursor
    ELSE 0

\* a checkActiveBets that visits no entry
C22_mut_Advance(map, cursor) == IdleRun

\* the run after the iterator's step: checkBetStatus of the next entry up to
\* its await of fetch, or the end of checkActiveBets
Advance(map, cursor) ==
    IF NextEntry(map, cursor) = 0 THEN IdleRun
    ELSE [pc |-> "fetching",
          bet |-> map[NextEntry(map, cursor)].bet,
          cursor |-> map[NextEntry(map, cursor)].seq]

\* getNextQueuedBet incrementing the index before the test of exhaustion
C26_mut_getNextQueuedBet(queue, index) ==
    IF index >= Len(queue) THEN [bet |-> 0, index |-> index + 1]
    ELSE [bet |-> queue[index + 1], index |-> index + 1]

\* getNextQueuedBet: the entry at currentBetIndex (0 for null) and the index
\* after the call
getNextQueuedBet(queue, index) ==
    IF index >= Len(queue) THEN [bet |-> 0, index |-> index]
    ELSE [bet |-> queue[index + 1], index |-> index + 1]

\* checkForBets in the run r: getNextQueuedBet, processNewBet and
\* startWalkingToBookie for the bet fed, then checkActiveBets up to the first
\* fetch (processNewBet awaits nothing)
checkForBets(r) ==
    /\ connected
    /\ \E nextBet \in {getNextQueuedBet(betQueue, currentBetIndex)} :
       IF nextBet.bet # 0
       THEN \E ref \in {nextBet.bet} :
            \E b \in {betObjects[ref]} :
            \E map \in {MapSet(activeBets, b.id, ref, inserted + 1)} :
               /\ currentBetIndex' = nextBet.index
               /\ activeBets' = map
               /\ inserted' = IF Len(map) > Len(activeBets) THEN inserted + 1
                              ELSE inserted
               /\ characters' =
                     [characters EXCEPT
                         ![b.character].activeBets = Append(@, b.id)]
               /\ walkTimers' = walkTimers \cup {[bet |-> ref, stale |-> FALSE]}
               /\ runs' = [runs EXCEPT ![r] = Advance(map, 0)]
       ELSE /\ currentBetIndex' = nextBet.index
            /\ runs' = [runs EXCEPT ![r] = Advance(activeBets, 0)]
            /\ UNCHANGED <<activeBets, inserted, characters, walkTimers>>
    /\ UNCHANGED <<evalvars, display, idleTimers,
                   table, event, connected, isRunning, isPaused,
                   updateInterval, betQueue, betObjects, loading, starts,
                   countdowns, intervals>>

\* a free slot for an invocation of checkForBets
FreeRun(r) ==
    /\ runs[r] = IdleRun
    /\ \A q \in 1..(r - 1) : runs[q] # IdleRun

\* the countdown interval reaches -1
CountdownElapsed ==
    /\ countdowns > 0
    /\ isRunning
    /\ ~isPaused
    /\ \E r \in 1..MaxRuns : FreeRun(r) /\ checkForBets(r)

\* the main interval fires
IntervalElapsed ==
    /\ intervals > 0
    /\ isRunning
    /\ ~isPaused
    /\ \E r \in 1..MaxRuns : FreeRun(r) /\ checkForBets(r)

\* the selection settleBet and updateInProgressBet derive from the bet (the
\* queued object has no Bet_Selection field)
SelectionOf(b) ==
    LET rec == ToLowerCase(b.selection_combo)
    IN IF Includes(rec, <<"o", "v", "e", "r">>) THEN Over
       ELSE IF Includes(rec, <<"u", "n", "d", "e", "r">>) THEN Under
       ELSE IF Includes(rec, <<"h", "o", "m", "e">>)
               \/ Includes(rec, <<"h", "a", "n", "d", "i", "c", "a", "p">>)
       THEN IF Ge(b.selection_line, Num(0)) THEN AwayTeam ELSE HomeTeam
       ELSE HomeTeam

\* `${event.homeScore || 0}-${event.awayScore || 0}`
ScoreOf(ev) == FormatScore(ev.homeScore, ev.awayScore)

\* the character after settleBet with this result and payout for the bet id
SettledCharacter(c, id, res, pay) ==
    [c EXCEPT
        !.bankroll = Add(@, pay),
        !.activeBets = SelectSeq(@, LAMBDA x : x # id),
        !.stats = [@ EXCEPT
            !.totalPayout = Add(@, pay),
            !.totalWins = IF StartsWith(res, Win) THEN @ + 1 ELSE @,
            !.totalLosses = IF ~StartsWith(res, Win) /\ StartsWith(res, Loss)
                            THEN @ + 1 ELSE @,
            !.netProfit = Sub(Add(c.stats.totalPayout, pay), c.stats.totalStaked)]]

\* settleBet(bet, event, character) up to its await of supabaseClient.settleBet
settleBet(ref) ==
    \E b \in {betObjects[ref]} :
    \E res \in {calculateEnhancedPredictedResult(
                    SelectionOf(b), b.selection_line, b.bet_time_score,
                    ScoreOf(event))} :
    \E stk \in {StakeOf(b.parsedStake)} :
    \E pay \in {calculatePayout(res, stk, b.price)} :
       /\ characters' = [characters EXCEPT
             ![b.character] = SettledCharacter(@, b.id, res, pay)]
       /\ activeBets' = MapDelete(activeBets, b.id)
       /\ betObjects' = [betObjects EXCEPT
             ![ref].settlements = @ + 1,
             ![ref].settledStake = stk,
             ![ref].payout = pay]

\* checkBetStatus after its fetch: the request fails, or the event is in
\* progress or not started, and bankrolls, stats and bets stay as they are; or
\* the event is finished (settleBet)
FetchResponse(r) ==
    /\ runs[r].pc = "fetching"
    /\ \/ UNCHANGED <<characters, activeBets, betObjects>>
       \/ /\ event.status = "finished"
          /\ settleBet(runs[r].bet)
    /\ runs' = [runs EXCEPT ![r].pc = "next"]
    /\ UNCHANGED <<evalvars, display, idleTimers,
                   table, event, connected, isRunning, isPaused,
                   updateInterval, betQueue, currentBetIndex, inserted, loading,
                   starts, countdowns, intervals, walkTimers>>

\* checkActiveBets: the for-of loop takes the next entry of the Map
NextActiveBet(r) ==
    /\ runs[r].pc = "next"
    /\ runs' = [runs EXCEPT ![r] = Advance(activeBets, runs[r].cursor)]
    /\ UNCHANGED <<evalvars, display, idleTimers,
                   table, event, connected, isRunning, isPaused,
                   updateInterval, betQueue, currentBetIndex, activeBets,
                   characters, betObjects, inserted, loading, starts, countdowns,
                   intervals, walkTimers>>

\* the stake placeBet parses from bet.stake
ParseStake(field) ==
    IF field.t = "string"
    THEN LET parsed == ParseFloat(RemoveCurrency(field.s))
         IN IF IsNum(parsed) /\ parsed.v # 0 THEN parsed ELSE Num(100000)
    ELSE IF field.t = "number" THEN field.n
    ELSE Num(100000)

\* the walk timer fires: placeBet(character, bet)
placeBet(t) ==
    /\ t \in walkTimers
    /\ \E b \in {betObjects[t.bet]} :
       \E stk \in {ParseStake(b.stake)} :
          /\ betObjects' = [betObjects EXCEPT
                ![t.bet].parsedStake = stk,
                ![t.bet].placedAfter = (b.settlements > 0)]
          /\ characters' =
                IF t.stale THEN characters
                ELSE [characters EXCEPT
                         ![b.character].bankroll = Sub(@, stk),
                         ![b.character].stats.totalStaked = Add(@, stk),
                         ![b.character].stats.totalBets = @ + 1,
                         ![b.character].placements = @ + 1]
    /\ walkTimers' = walkTimers \ {t}
    /\ UNCHANGED <<evalvars, display, idleTimers,
                   table, event, connected, isRunning, isPaused,
                   updateInterval, betQueue, currentBetIndex, activeBets,
                   inserted, loading, starts, countdowns, intervals, runs>>

SimNext ==
    \/ Connect
    \/ Start
    \/ LoadDone
    \/ Pause
    \/ Reset
    \/ KickOff
    \/ Goal
    \/ FullTime
    \/ Cancel
    \/ CountdownElapsed
    \/ IntervalElapsed
    \/ \E r \in 1..MaxRuns : FetchResponse(r)
    \/ \E r \in 1..MaxRuns : NextActiveBet(r)
    \/ \E t \in walkTimers : placeBet(t)

SimSpec == SimInit /\ [][SimNext]_vars

\* the steps of FetchResponse(r) that settle: the response reports the
\* finished event
FetchSettles(r) ==
    /\ runs[r].pc = "fetching"
    /\ event.status = "finished"
    /\ runs' = [runs EXCEPT ![r].pc = "next"]
    /\ betObjects' # betObjects

\* the event loop: a live interval keeps firing, a pending fetch is answered,
\* a for-of loop goes on; and a fetch that is pending on the finished event
\* again and again is at last answered with it (strong fairness of
\* FetchSettles(r), whose enabling condition is written out)
SimFairSpec ==
    /\ SimSpec
    /\ WF_vars(CountdownElapsed)
    /\ WF_vars(IntervalElapsed)
    /\ \A r \in 1..MaxRuns :
          /\ WF_vars(FetchResponse(r))
          /\ WF_vars(NextActiveBet(r))
          /\ []<>(runs[r].pc = "fetching" /\ event.status = "finished")
                => []<><<FetchSettles(r)>>_vars

(***************************************************************************)
(* The simulation of src/src/simulation.js.  start, pause, the update      *)
(* loop, loadExistingBets, getNextQueuedBet, processNewBet and placeBet    *)
(* are those of src/js/simulation.js; checkBetStatus also settles a bet    *)
(* whose event is 'canceled', and settleBet has a path of its own for it.  *)
(* The actions below also follow character.state, character.emotion and    *)
(* the timers that return a character to 'idle'.                           *)
(***************************************************************************)
MaxSrcRows == 1
SrcTables == UNION {[1..n -> TableRows] : n \in 1..MaxSrcRows}

SimSrcInit ==
    /\ table \in SrcTables
    /\ Constructed
    /\ selectionCombo = Null
    /\ selectionLine = Undefined
    /\ betTimeScore = Null
    /\ currentScore = Null
    /\ parsedStake = Undefined
    /\ price = Undefined
    /\ rounded = Undefined
    /\ result = Null
    /\ stake = Undefined
    /\ payout = Undefined
    /\ emotion = Null
    /\ pc = "active"

\* character.state and character.emotion after an emotion object e of the
\* engine is shown
Shown(e) == [state |-> e.state, emotion |-> e]

Walking ==
    [state |-> <<"w", "a", "l", "k", "i", "n", "g", "_", "t", "o", "_",
                 "b", "o", "o", "k", "i", "e">>,
     emotion |-> [state |-> <<"w", "a", "l", "k", "i", "n", "g">>,
                  description |-> "Walking to bookie"]]
Placing ==
    [state |-> <<"p", "l", "a", "c", "i", "n", "g", "_", "b", "e", "t">>,
     emotion |-> [state |-> <<"p", "l", "a", "c", "i", "n", "g">>,
                  description |-> "Placing bet"]]
WaitingForResult ==
    [state |-> Idle,
     emotion |-> [state |-> <<"w", "a", "i", "t", "i", "n", "g">>,
                  description |-> "Waiting for result"]]
WaitingForStart ==
    [state |-> <<"w", "a", "i", "t", "i", "n", "g">>,
     description |-> "Waiting for match to start"]
ReadyForNextBet ==
    [state |-> Idle,
     emotion |-> [state |-> <<"n", "e", "u", "t", "r", "a", "l">>,
                  description |-> "Ready for next bet"]]

\* the emotion object getEmotionFromResult returns
SettledEmotion(res) ==
    [state |-> getEmotionFromResult(res),
     description |->
        IF StartsWith(res, Win) THEN "Celebrating win!"
        ELSE IF StartsWith(res, HalfWin) THEN "Half win - not bad!"
        ELSE IF StartsWith(res, Push) THEN "Push - stake returned"
        ELSE IF StartsWith(res, HalfLoss) THEN "Half loss - could be worse"
        ELSE IF StartsWith(res, Loss) THEN "Lost the bet!"
        ELSE "Checking result..."]

\* the emotion object getInProgressEmotion returns
InProgressEmotion(prediction) ==
    [state |-> getInProgressEmotion(prediction),
     description |->
        IF StartsWith(prediction, Win) \/ StartsWith(prediction, HalfWin)
        THEN "Looking good!"
        ELSE IF StartsWith(prediction, Loss)
                \/ StartsWith(prediction, HalfLoss)
        THEN "Not looking good..."
        ELSE "Too close to call"]

\* reset(): the timers pending hold the character objects it replaces, and
\* show nothing any more
SrcReset ==
    /\ isRunning' = FALSE
    /\ isPaused' = FALSE
    /\ updateInterval' = FALSE
    /\ countdowns' = IF updateInterval THEN countdowns - 1 ELSE countdowns
    /\ characters' = [n \in CharacterNames |-> createCharacter(n)]
    /\ display' = [n \in CharacterNames |-> ReadyToBet]
    /\ activeBets' = <<>>
    /\ betQueue' = <<>>
    /\ currentBetIndex' = 0
    /\ walkTimers' = {[t EXCEPT !.stale = TRUE] : t \in walkTimers}
    /\ idleTimers' = {}
    /\ UNCHANGED <<evalvars, table, event, connected, betObjects, inserted,
                   loading, starts, intervals, runs>>

\* checkForBets in the run r, with the walk to the bookie shown
SrcCheckForBets(r) ==
    /\ connected
    /\ \E nextBet \in {getNextQueuedBet(betQueue, currentBetIndex)} :
       IF nextBet.bet # 0
       THEN \E ref \in {nextBet.bet} :
            \E b \in {betObjects[ref]} :
            \E map \in {MapSet(activeBets, b.id, ref, inserted + 1)} :
               /\ currentBetIndex' = nextBet.index
               /\ activeBets' = map
               /\ inserted' = IF Len(map) > Len(activeBets) THEN inserted + 1
                              ELSE inserted
               /\ characters' =
                     [characters EXCEPT
                         ![b.character].activeBets = Append(@, b.id)]
               /\ display' = [display EXCEPT ![b.character] = Walking]
               /\ walkTimers' = walkTimers \cup {[bet |-> ref, stale |-> FALSE]}
               /\ runs' = [runs EXCEPT ![r] = Advance(map, 0)]
       ELSE /\ currentBetIndex' = nextBet.index
            /\ runs' = [runs EXCEPT ![r] = Advance(activeBets, 0)]
            /\ UNCHANGED <<activeBets, inserted, characters, display,
                           walkTimers>>
    /\ UNCHANGED <<evalvars, idleTimers, table, event, connected, isRunning,
                   isPaused, updateInterval, betQueue, betObjects, loading,
                   starts, countdowns, intervals>>

SrcCountdownElapsed ==
    /\ countdowns > 0
    /\ isRunning
    /\ ~isPaused
    /\ \E r \in 1..MaxRuns : FreeRun(r) /\ SrcCheckForBets(r)

SrcIntervalElapsed ==
    /\ intervals > 0
    /\ isRunning
    /\ ~isPaused
    /\ \E r \in 1..MaxRuns : FreeRun(r) /\ SrcCheckForBets(r)

\* the walk timer fires: placeBet(character, bet), with its timer back to
\* 'idle'
SrcPlaceBet(t) ==
    /\ t \in walkTimers
    /\ \E b \in {betObjects[t.bet]} :
       \E stk \in {ParseStake(b.stake)} :
          /\ betObjects' = [betObjects EXCEPT
                ![t.bet].parsedStake = stk,
                ![t.bet].placedAfter = (b.settlements > 0)]
          /\ characters' =
                IF t.stale THEN characters
                ELSE [characters EXCEPT
                         ![b.character].bankroll = Sub(@, stk),
                         ![b.character].stats.totalStaked = Add(@, stk),
                         ![b.character].stats.totalBets = @ + 1,
                         ![b.character].placements = @ + 1]
          /\ display' =
                IF t.stale THEN display
                ELSE [display EXCEPT ![b.character] = Placing]
          /\ idleTimers' =
                IF t.stale THEN idleTimers
                ELSE idleTimers
                        \cup {[character |-> b.character, to |-> WaitingForResult]}
    /\ walkTimers' = walkTimers \ {t}
    /\ UNCHANGED <<evalvars, table, event, connected, isRunning, isPaused,
                   updateInterval, betQueue, currentBetIndex, activeBets,
                   inserted, loading, starts, countdowns, intervals, runs>>

\* a timer of placeBet or settleBet fires: the character is back to 'idle'
\* (idleAgain records it for the settled bets of the character when the
\* timer is one of settleBet)
BackToIdle(t) ==
    /\ t \in idleTimers
    /\ display' = [display EXCEPT ![t.character] = t.to]
    /\ idleTimers' = idleTimers \ {t}
    /\ betObjects' =
          [ref \in 1..Len(betObjects) |->
              IF /\ t.to = ReadyForNextBet
                 /\ betObjects[ref].character = t.character
                 /\ betObjects[ref].settlements > 0
              THEN [betObjects[ref] EXCEPT !.idleAgain = TRUE]
              ELSE betObjects[ref]]
    /\ UNCHANGED <<evalvars, table, event, connected, isRunning, isPaused,
                   updateInterval, betQueue, currentBetIndex, activeBets,
                   characters, inserted, loading, starts, countdowns,
                   intervals, walkTimers, runs>>

PushCanceled ==
    <<"P", "u", "s", "h", " ", "-", " ", "C", "a", "n", "c", "e", "l", "e", "d",
      " ", "E", "v", "e", "n", "t">>

\* the character after the canceled-event path of settleBet
CanceledCharacter(c, id, pay) ==
    [c EXCEPT
        !.bankroll = Add(@, pay),
        !.activeBets = SelectSeq(@, LAMBDA x : x # id),
        !.stats = [@ EXCEPT
            !.totalPayout = Add(@, pay),
            !.totalBets = @ + 1]]

\* the character after the regular path of settleBet
SrcSettledCharacter(c, id, res, pay) ==
    [c EXCEPT
        !.bankroll = Add(@, pay),
        !.activeBets = SelectSeq(@, LAMBDA x : x # id),
        !.stats = [@ EXCEPT
            !.totalPayout = Add(@, pay),
            !.totalBets = @ + 1,
            !.netProfit = Sub(Add(c.stats.totalPayout, pay), c.stats.totalStaked),
            !.totalWins = IF StartsWith(res, Win) THEN @ + 1 ELSE @,
            !.totalLosses = IF StartsWith(res, Loss) THEN @ + 1 ELSE @]]

\* settleBet(bet, event, character)
SrcSettleBet(ref) ==
    \E b \in {betObjects[ref]} :
    \E stk \in {StakeOf(b.parsedStake)} :
       IF event.status = "canceled"
       THEN /\ characters' = [characters EXCEPT
                  ![b.character] = CanceledCharacter(@, b.id, stk)]
            /\ display' = [display EXCEPT
                  ![b.character] = Shown(SettledEmotion(PushCanceled))]
            /\ idleTimers' = idleTimers
            /\ activeBets' = MapDelete(activeBets, b.id)
            /\ betObjects' = [betObjects EXCEPT
                  ![ref].settlements = @ + 1,
                  ![ref].settledStake = stk,
                  ![ref].payout = stk,
                  ![ref].idleAgain = FALSE]
       ELSE \E res \in {calculateEnhancedPredictedResult(
                           SelectionOf(b), b.selection_line, b.bet_time_score,
                           ScoreOf(event))} :
            \E pay \in {calculatePayout(res, stk, b.price)} :
               /\ characters' = [characters EXCEPT
                     ![b.character] = SrcSettledCharacter(@, b.id, res, pay)]
               /\ display' = [display EXCEPT
                     ![b.character] = Shown(SettledEmotion(res))]
               /\ idleTimers' = idleTimers
                     \cup {[character |-> b.character, to |-> ReadyForNextBet]}
               /\ activeBets' = MapDelete(activeBets, b.id)
               /\ betObjects' = [betObjects EXCEPT
                     ![ref].settlements = @ + 1,
                     ![ref].settledStake = stk,
                     ![ref].payout = pay,
                     ![ref].idleAgain = FALSE]

\* updateInProgressBet(bet, event, character)
SrcUpdateInProgressBet(ref) ==
    \E b \in {betObjects[ref]} :
    \E prediction \in {calculateEnhancedPredictedResult(
                          SelectionOf(b), b.selection_line, b.bet_time_score,
                          ScoreOf(event))} :
       display' = [display EXCEPT
                      ![b.character] = Shown(InProgressEmotion(prediction))]

\* checkBetStatus after its fetch: the request fails; or the event is
\* finished or canceled (settleBet), in progress (updateInProgressBet), or
\* not started
SrcFetchResponse(r) ==
    /\ runs[r].pc = "fetching"
    /\ \/ UNCHANGED <<characters, activeBets, betObjects, display, idleTimers>>
       \/ /\ event.status \in {"finished", "canceled"}
          /\ SrcSettleBet(runs[r].bet)
       \/ /\ event.status = "inprogress"
          /\ SrcUpdateInProgressBet(runs[r].bet)
          /\ UNCHANGED <<characters, activeBets, betObjects, idleTimers>>
       \/ /\ event.status = "notstarted"
          /\ display' = [display EXCEPT
                ![betObjects[runs[r].bet].character].emotion = WaitingForStart]
          /\ UNCHANGED <<characters, activeBets, betObjects, idleTimers>>
    /\ runs' = [runs EXCEPT ![r].pc = "next"]
    /\ UNCHANGED <<evalvars, table, event, connected, isRunning, isPaused,
                   updateInterval, betQueue, currentBetIndex, inserted, loading,
                   starts, countdowns, intervals, walkTimers>>

SimSrcNext ==
    \/ Connect
    \/ Start
    \/ LoadDone
    \/ Pause
    \/ SrcReset
    \/ KickOff
    \/ Goal
    \/ FullTime
    \/ Cancel
    \/ SrcCountdownElapsed
    \/ SrcIntervalElapsed
    \/ \E r \in 1..MaxRuns : SrcFetchResponse(r)
    \/ \E r \in 1..MaxRuns : NextActiveBet(r)
    \/ \E t \in walkTimers : SrcPlaceBet(t)
    \/ \E t \in idleTimers : BackToIdle(t)

\* the steps of SrcFetchResponse(r) that settle
SrcFetchSettles(r) ==
    /\ runs[r].pc = "fetching"
    /\ event.status \in {"finished", "canceled"}
    /\ runs' = [runs EXCEPT ![r].pc = "next"]
    /\ betObjects' # betObjects

\* the steps of SrcPlaceBet
WalkTimerFires == walkTimers' \subseteq walkTimers /\ walkTimers' # walkTimers

\* the event loop, as in SimFairSpec: intervals and timeouts fire, pending
\* fetches are answered, and a settling response is not missed for ever (the
\* enabling conditions of SrcFetchSettles(r) and of SrcPlaceBet are written
\* out)
SimSrcSpec ==
    /\ SimSrcInit
    /\ [][SimSrcNext]_vars
    /\ WF_vars(SrcCountdownElapsed)
    /\ WF_vars(SrcIntervalElapsed)
    /\ WF_vars(\E t \in idleTimers : BackToIdle(t))
    /\ \A r \in 1..MaxRuns :
          /\ WF_vars(SrcFetchResponse(r))
          /\ WF_vars(NextActiveBet(r))
          /\ []<>(runs[r].pc = "fetching"
                    /\ event.status \in {"finished", "canceled"})
                => []<><<SrcFetchSettles(r)>>_vars
    /\ <>[](walkTimers # {}) => []<><<WalkTimerFires>>_vars

(***************************************************************************)
(* Vocabulary of the properties.                                           *)
(***************************************************************************)
Classes == {Win, HalfWin, Push, HalfLoss, Loss}
Recognized == {HomeTeam, AwayTeam, Over, Under}
Handicaps == {HomeTeam, AwayTeam}
Totals == {Over, Under}

\* the result string r is the outcome class c followed by a detail suffix
HasClass(r, c) == StartsWith(r, c \o <<" ", "-", " ">>)
IsOutcome(r) == \E c \in Classes : HasClass(r, c)

\* the classification table of the specification, on a margin in thousandths
ExpectedClass(m) ==
    IF m >= 500 THEN Win
    ELSE IF m = 250 THEN HalfWin
    ELSE IF m = 0 THEN Push
    ELSE IF m = -250 THEN HalfLoss
    ELSE Loss

\* the table on a JavaScript number: NaN is none of the four tested values
ExpectedClassOf(x) == IF IsNum(x) THEN ExpectedClass(x.v) ELSE Loss

Evaluated == pc # "active"
Paid == pc = "settled"
ValidCurrent == \E h, a \in Goals : currentScore = FormatScore(h, a)

\* the margin goalDiff + line of a handicap bet on whole goals, in thousandths
HandicapMilli(sel, adjHome, adjAway, lineMilli) ==
    (IF sel = HomeTeam THEN adjHome - adjAway ELSE adjAway - adjHome) * 1000
    + lineMilli

\* the margin of a totals bet on whole goals, in thousandths
TotalsMilli(sel, total, lineMilli) ==
    IF sel = Over THEN total * 1000 - lineMilli ELSE lineMilli - total * 1000

(***************************************************************************)
(* C1: for a recognized selection, the class of the returned result is    *)
(* Win when the rounded margin is >= 0.5, Half Win when it is 0.25, Push   *)
(* when it is 0, Half Loss when it is -0.25 and Loss otherwise; handicap   *)
(* and Over/Under selections go through the same table.                    *)
(***************************************************************************)
C1_ClassificationTable ==
    (Evaluated /\ selectionCombo \in Recognized)
        => HasClass(result, ExpectedClassOf(rounded))

C1_Witness ==
    /\ Evaluated
    /\ selectionCombo = Under
    /\ rounded = Num(500)
    /\ HasClass(result, Win)

(***************************************************************************)
(* C2: for Home Team / Away Team with a bet-time score H-A present, the    *)
(* margin is (goals since the snapshot, own side minus other side) + line, *)
(* and the result is the class of that margin followed by the detail that  *)
(* shows the adjusted goals; for all whole scores and quarter lines.       *)
(***************************************************************************)
C2_HandicapSinceSnapshot ==
    \A h, a, bh, ba \in Goals :
        ( /\ Evaluated
          /\ selectionCombo \in Handicaps
          /\ selectionLine \in QuarterLines
          /\ currentScore = FormatScore(h, a)
          /\ betTimeScore \in {FormatScore(bh, ba), SpacedScore(bh, ba)} )
        => LET m == HandicapMilli(selectionCombo, h - bh, a - ba, selectionLine.v)
           IN /\ rounded = Num(m)
              /\ result = ExpectedClass(m)
                          \o HandicapDetail(selectionCombo, selectionLine,
                                 [home |-> Num((h - bh) * 1000),
                                  away |-> Num((a - ba) * 1000)])

C2_Witness ==
    /\ Evaluated
    /\ selectionCombo = HomeTeam
    /\ selectionLine = Num(-750)
    /\ betTimeScore = FormatScore(1, 0)
    /\ currentScore = FormatScore(2, 0)
    /\ HasClass(result, HalfWin)

(***************************************************************************)
(* C3: for Over / Under the result depends on the line and the absolute    *)
(* current total only: evaluating the same bet with any other bet-time     *)
(* score gives the same result, and its class is that of total - line      *)
(* (Over) or line - total (Under), rounded.                                *)
(***************************************************************************)
C3_TotalsIgnoreBetTimeScore ==
    (Evaluated /\ selectionCombo \in Totals)
        => /\ \A b \in BetTimeScores :
                 calculateEnhancedPredictedResult(
                     selectionCombo, selectionLine, b, currentScore) = result
           /\ \A h, a \in Goals :
                 currentScore = FormatScore(h, a)
                 => HasClass(result,
                        ExpectedClassOf(Round2(Num(
                            TotalsMilli(selectionCombo, h + a, selectionLine.v)))))

C3_Witness ==
    /\ Evaluated
    /\ selectionCombo = Over
    /\ selectionLine = Num(750)
    /\ betTimeScore = FormatScore(1, 0)
    /\ currentScore = FormatScore(1, 1)
    /\ HasClass(result, Win)

(***************************************************************************)
(* C4: the payout is stake*odds for Win, stake + stake*(odds-1)/2 for Half *)
(* Win, stake for Push, stake/2 for Half Loss and 0 for Loss; so a Half    *)
(* Win is not paid by the Win rule nor a Half Loss by the Loss rule.       *)
(***************************************************************************)
C4_PayoutTable ==
    (Paid /\ IsOutcome(result))
        => /\ IsNum(payout)
           /\ HasClass(result, Win) => payout.v * 1000 = stake.v * price.v
           /\ HasClass(result, HalfWin)
                 => payout.v * 2000 = 2000 * stake.v + stake.v * (price.v - 1000)
           /\ HasClass(result, Push) => payout.v = stake.v
           /\ HasClass(result, HalfLoss) => payout.v * 2 = stake.v
           /\ HasClass(result, Loss) => payout.v = 0

C4_Witness ==
    /\ Paid
    /\ HasClass(result, HalfWin)
    /\ stake = Num(100000)
    /\ price = Num(1860)
    /\ payout = Num(143000)

(***************************************************************************)
(* C5 as claimed: for each of the five classes and every positive stake    *)
(* and odds, 0 <= payout <= stake*odds.                                    *)
(***************************************************************************)
C5_PayoutWithinStakeTimesOdds ==
    (Paid /\ IsOutcome(result))
        => /\ IsNum(payout)
           /\ 0 <= payout.v
           /\ payout.v * 1000 <= stake.v * price.v

(***************************************************************************)
(* C5 amended: for each of the five classes, every positive stake and      *)
(* every odds >= 1, 0 <= payout <= stake*odds.                             *)
(***************************************************************************)
C5_PayoutWithinStakeTimesOddsFromOne ==
    (Paid /\ IsOutcome(result) /\ price.v >= 1000)
        => /\ IsNum(payout)
           /\ 0 <= payout.v
           /\ payout.v * 1000 <= stake.v * price.v

C5_Witness ==
    /\ Paid
    /\ HasClass(result, HalfWin)
    /\ price = Num(1000)
    /\ payout = stake

(***************************************************************************)
(* C6: for whole goals, a quarter line, a recognized selection and any     *)
(* bet-time score, the result has exactly one of the five outcome classes  *)
(* (it is never 'Pending').                                                *)
(***************************************************************************)
C6_Totality ==
    ( /\ Evaluated
      /\ selectionCombo \in Recognized
      /\ selectionLine \in QuarterLines
      /\ ValidCurrent )
        => /\ Cardinality({c \in Classes : HasClass(result, c)}) = 1
           /\ result # Pending

C6_Witness ==
    /\ Evaluated
    /\ selectionCombo = Under
    /\ selectionLine \in QuarterLines
    /\ ValidCurrent
    /\ betTimeScore = Null
    /\ HasClass(result, HalfLoss)

(***************************************************************************)
(* C7: with whole goals and a quarter line the rounded margin is a         *)
(* multiple of 0.25, so a Loss comes with a margin <= -0.5 only, never     *)
(* with one strictly between -0.5 and 0.5.                                 *)
(***************************************************************************)
C7_MarginOnQuarterGrid ==
    ( /\ Evaluated
      /\ selectionCombo \in Recognized
      /\ selectionLine \in QuarterLines
      /\ ValidCurrent )
        => /\ IsNum(rounded)
           /\ rounded.v % 250 = 0
           /\ HasClass(result, Loss) => rounded.v <= -500

C7_Witness ==
    /\ Evaluated
    /\ selectionCombo = AwayTeam
    /\ selectionLine \in QuarterLines
    /\ ValidCurrent
    /\ rounded = Num(-750)
    /\ HasClass(result, Loss)

(***************************************************************************)
(* C8: for Home Team / Away Team, a bet-time score that is absent (null or *)
(* 'N/A') gives the class that the bet-time score 0-0 gives, which for     *)
(* whole goals is the class of the absolute goal difference + line.        *)
(***************************************************************************)
C8_AbsentSnapshotIsZeroZero ==
    (Evaluated /\ selectionCombo \in Handicaps /\ betTimeScore \in {Null, NA})
        => /\ \A c \in Classes :
                 HasClass(result, c)
                 <=> HasClass(calculateEnhancedPredictedResult(selectionCombo,
                         selectionLine, FormatScore(0, 0), currentScore), c)
           /\ \A h, a \in Goals :
                 currentScore = FormatScore(h, a)
                 => HasClass(result,
                        ExpectedClassOf(Round2(Num(
                            HandicapMilli(selectionCombo, h, a, selectionLine.v)))))

C8_Witness ==
    /\ Evaluated
    /\ selectionCombo = AwayTeam
    /\ betTimeScore = NA
    /\ currentScore = FormatScore(0, 1)
    /\ selectionLine = Num(-750)
    /\ HasClass(result, HalfWin)

(***************************************************************************)
(* C9 as claimed: for a selection that is none of the four recognized      *)
(* values no result is produced, and so no payout and no emotion.          *)
(***************************************************************************)
C9_InvalidSelectionNoResult ==
    selectionCombo \notin Recognized
        => /\ result = Null
           /\ payout = Undefined
           /\ emotion = Null

(***************************************************************************)
(* C10 as claimed: when the current score or the bet-time score does not   *)
(* hold two non-negative integers, the evaluation returns none of the five *)
(* outcome classes.                                                        *)
(***************************************************************************)
C10_InvalidScoreNoOutcome ==
    ( /\ Evaluated
      /\ selectionCombo \in Recognized
      /\ (currentScore \in BadScores \/ betTimeScore \in BadBetTimeScores) )
        => ~IsOutcome(result)

(***************************************************************************)
(* C11 as claimed: when the rounded margin of a recognized selection lies  *)
(* strictly between -0.5 and 0.5 and is none of -0.25, 0, 0.25 (a line off *)
(* the quarter grid), the evaluation signals the margin as unclassifiable  *)
(* and returns none of the five outcome classes.                           *)
(***************************************************************************)
C11_UnclassifiableMarginNoOutcome ==
    ( /\ Evaluated
      /\ selectionCombo \in Recognized
      /\ IsNum(rounded)
      /\ rounded.v > -500
      /\ rounded.v < 500
      /\ rounded.v \notin {-250, 0, 250} )
        => ~IsOutcome(result)

(***************************************************************************)
(* C12 as claimed: whenever the stake or the odds is negative or not a     *)
(* finite number, the payout computation fails and returns no number.      *)
(***************************************************************************)
C12_InvalidArgumentNoPayout ==
    ( /\ Paid
      /\ \/ ~IsNum(price)
         \/ price.v < 0
         \/ stake.v < 0 )
        => ~IsNum(payout)

\* the emotion token of an outcome class in the settled mapping
SettledToken(c) ==
    IF c = Win THEN <<"j", "o", "y">>
    ELSE IF c = HalfWin THEN <<"r", "e", "l", "i", "e", "f">>
    ELSE IF c = Push THEN <<"n", "e", "u", "t", "r", "a", "l">>
    ELSE IF c = HalfLoss THEN <<"a", "n", "n", "o", "y", "e", "d">>
    ELSE <<"a", "n", "g", "e", "r">>

Thinking == <<"t", "h", "i", "n", "k", "i", "n", "g">>
Hopeful == <<"h", "o", "p", "e", "f", "u", "l">>
Worried == <<"w", "o", "r", "r", "i", "e", "d">>
Neutral == <<"n", "e", "u", "t", "r", "a", "l">>

(***************************************************************************)
(* C13: the emotion of a settled bet is joy for Win, relief for Half Win,  *)
(* neutral for Push, annoyed for Half Loss and anger for Loss, five        *)
(* distinct tokens; 'thinking' comes exactly with a result that has none   *)
(* of the five classes.                                                    *)
(***************************************************************************)
C13_SettledEmotionTable ==
    Paid => /\ \A c \in Classes : HasClass(result, c) => emotion = SettledToken(c)
            /\ emotion = Thinking <=> ~IsOutcome(result)
            /\ Cardinality({SettledToken(c) : c \in Classes} \cup {Thinking}) = 6

C13_Witness ==
    /\ Paid
    /\ HasClass(result, HalfWin)
    /\ emotion = <<"r", "e", "l", "i", "e", "f">>

(***************************************************************************)
(* C14: the emotion of a bet in progress is hopeful for a predicted Win or *)
(* Half Win, worried for Loss or Half Loss and neutral for Push and for    *)
(* anything else; it is never one of joy, relief, annoyed, anger.          *)
(***************************************************************************)
C14_InProgressEmotionTable ==
    pc = "inprogress"
        => /\ (HasClass(result, Win) \/ HasClass(result, HalfWin))
                 => emotion = Hopeful
           /\ (HasClass(result, Loss) \/ HasClass(result, HalfLoss))
                 => emotion = Worried
           /\ (HasClass(result, Push) \/ ~IsOutcome(result)) => emotion = Neutral
           /\ emotion \notin {SettledToken(c) : c \in Classes \ {Push}}

C14_Witness ==
    /\ pc = "inprogress"
    /\ HasClass(result, HalfLoss)
    /\ emotion = Worried

(***************************************************************************)
(* C15: for a recognized selection, the emotion of the settled bet is the  *)
(* token of the class of the rounded margin, read back from the result     *)
(* string (class followed by its detail); it is never 'thinking'.          *)
(***************************************************************************)
C15_EmotionOfEvaluation ==
    (Paid /\ selectionCombo \in Recognized)
        => /\ emotion = SettledToken(ExpectedClassOf(rounded))
           /\ emotion # Thinking

C15_Witness ==
    /\ Paid
    /\ selectionCombo = AwayTeam
    /\ rounded = Num(-250)
    /\ emotion = <<"a", "n", "n", "o", "y", "e", "d">>

\* the bet objects loadExistingBets has created so far
BetRefs == 1..Len(betObjects)
Settled(ref) == betObjects[ref].settlements > 0
Placed(ref) == betObjects[ref].parsedStake # Undefined

(***************************************************************************)
(* C18 as claimed: whatever the interleaving of the interval ticks, the    *)
(* overlapping checkForBets runs and the pending fetches, the payout of a  *)
(* bet is added to the bankroll and to totalPayout at most once.           *)
(***************************************************************************)
C18_SettledAtMostOnce ==
    \A ref \in BetRefs : betObjects[ref].settlements <= 1

(***************************************************************************)
(* C19 as claimed: a bet goes pending -> placed -> settled in that order:  *)
(* settleBet runs on a bet only after placeBet has deducted its stake, and *)
(* placeBet never runs on a bet that is already settled.                   *)
(***************************************************************************)
C19_PlacedBeforeSettled ==
    \A ref \in BetRefs :
        /\ Settled(ref) => Placed(ref)
        /\ ~betObjects[ref].placedAfter

(***************************************************************************)
(* C20 as claimed: for every bet that has been placed and settled, the     *)
(* stake settleBet computed the payout with is the stake placeBet deducted *)
(* from the bankroll.                                                      *)
(***************************************************************************)
C20_SettledStakeIsPlacedStake ==
    \A ref \in BetRefs :
        (Settled(ref) /\ Placed(ref))
            => betObjects[ref].settledStake = betObjects[ref].parsedStake

(***************************************************************************)
(* C21 as claimed: at any time at most one periodic driver invokes         *)
(* checkForBets, so that one update period triggers checkForBets at most   *)
(* once.  The drivers are the live timers of startUpdateLoop: the          *)
(* countdown interval kept in updateInterval and the main interval.        *)
(***************************************************************************)
C21_SinglePeriodicDriver ==
    countdowns + intervals <= 1

\* the bets a step feeds: the walks to the bookie it starts
Fed == {t \in walkTimers' \ walkTimers : ~t.stale}

(***************************************************************************)
(* C26: the queue is consumed in order, each entry at most once per load.  *)
(* In every reachable state 0 <= currentBetIndex <= betQueue.length.  A    *)
(* step that keeps the queue either leaves the index alone and feeds       *)
(* nothing, or, with the queue not exhausted, feeds exactly the entry at   *)
(* currentBetIndex (it enters activeBets and starts its walk) and advances *)
(* the index by one; with the queue exhausted the index does not change.   *)
(* A step that replaces the queue (a load, a reset) puts the index at 0.   *)
(***************************************************************************)
C26_QueueConsumedInOrder ==
    /\ [](0 <= currentBetIndex /\ currentBetIndex <= Len(betQueue))
    /\ [][/\ Cardinality(Fed) <= 1
          /\ betQueue' # betQueue => currentBetIndex' = 0 /\ Fed = {}
          /\ betQueue' = betQueue =>
                \/ currentBetIndex' = currentBetIndex /\ Fed = {}
                \/ /\ currentBetIndex < Len(betQueue)
                   /\ currentBetIndex' = currentBetIndex + 1
                   /\ Fed = {[bet |-> betQueue[currentBetIndex + 1],
                              stale |-> FALSE]}
                   /\ \E i \in 1..Len(activeBets') :
                         activeBets'[i].bet = betQueue[currentBetIndex + 1]
         ]_vars

\* a queue of two entries, both fed, the first one already settled and out
\* of the active bets
C26_Witness ==
    /\ Len(betQueue) = 2
    /\ currentBetIndex = 2
    /\ Settled(betQueue[1])
    /\ \E i \in 1..Len(activeBets) : activeBets[i].bet = betQueue[2]
    /\ \A i \in 1..Len(activeBets) : activeBets[i].bet # betQueue[1]

\* what reset() leaves: fresh characters, an empty active-bet map, an empty
\* queue
AsAfterReset ==
    /\ \A c \in CharacterNames : characters[c] = createCharacter(c)
    /\ activeBets = <<>>
    /\ betQueue = <<>>
    /\ currentBetIndex = 0

(***************************************************************************)
(* C27 as claimed: after reset() every character has bankroll 10000,       *)
(* zeroed stats and no active bets, the active-bet map and the queue are   *)
(* empty, and no step other than one of start() (its call, the end of its  *)
(* load) changes any of this, whatever timers and fetches begun before the *)
(* reset complete afterwards.                                              *)
(***************************************************************************)
C27_ResetStateKept ==
    [][(AsAfterReset /\ starts' = starts /\ loading' = loading)
          => AsAfterReset']_vars

\* the bet object is in the active-bet map
Active(ref) == \E i \in 1..Len(activeBets) : activeBets[i].bet = ref

(***************************************************************************)
(* C22: while the simulation keeps running, unpaused and connected, every  *)
(* bet that has been fed from the queue (it is in activeBets) and whose    *)
(* event reports 'finished' with a score is eventually settled and out of  *)
(* the active bets.                                                        *)
(***************************************************************************)
C22_FinishedBetEventuallySettled ==
    \A ref \in 1..(MaxRows * MaxStarts) :
        (Active(ref) /\ event.status = "finished"
            /\ isRunning /\ ~isPaused /\ connected)
        ~> \/ ref \in BetRefs /\ Settled(ref) /\ ~Active(ref)
           \/ ~isRunning
           \/ isPaused

\* two bets fed on a finished event, both settled and out of the active
\* bets, the simulation still running
C22_Witness ==
    /\ isRunning /\ ~isPaused /\ connected
    /\ event.status = "finished"
    /\ Len(betObjects) = 2
    /\ \A ref \in BetRefs : Settled(ref) /\ ~Active(ref)

(***************************************************************************)
(* C23 as claimed: a bet whose event is reported 'canceled' is settled as  *)
(* Push: once it is settled it is out of the active bets, the payout       *)
(* credited is the stake placeBet deducts for it, and the character's      *)
(* totalWins and totalLosses are as they were (0: an event that is         *)
(* canceled never was finished, so no other settlement counted).           *)
(***************************************************************************)
C23_CanceledSettledAsPush ==
    \A ref \in BetRefs :
        (event.status = "canceled" /\ Settled(ref)) =>
            /\ ~Active(ref)
            /\ Placed(ref) =>
                  betObjects[ref].payout = betObjects[ref].parsedStake
            /\ characters[betObjects[ref].character].stats.totalWins = 0
            /\ characters[betObjects[ref].character].stats.totalLosses = 0

(***************************************************************************)
(* C24 as claimed: after every settlement, regular or of a canceled event, *)
(* the stats of the character settled have netProfit = totalPayout -       *)
(* totalStaked.                                                            *)
(***************************************************************************)
C24_NetProfitAfterSettlement ==
    [][\A ref \in BetRefs :
          betObjects'[ref].settlements > betObjects[ref].settlements =>
             \E st \in {characters'[betObjects[ref].character].stats} :
                st.netProfit = Sub(st.totalPayout, st.totalStaked)]_vars

(***************************************************************************)
(* C25 as claimed: stats.totalBets of a character counts each bet once: it *)
(* is the number of bets placeBet has placed for that character.           *)
(***************************************************************************)
C25_TotalBetsCountsPlacements ==
    \A c \in CharacterNames :
        characters[c].stats.totalBets = characters[c].placements

(***************************************************************************)
(* C28 as claimed: after a bet is settled, and unless reset() replaces the *)
(* character, the character is at some later time in the state 'idle'     *)
(* with the neutral emotion 'Ready for next bet', whatever the path of the *)
(* settlement.                                                             *)
(***************************************************************************)
C28_SettledCharacterBackToIdle ==
    \A ref \in 1..(MaxRows * MaxStarts) :
        (ref \in BetRefs /\ Settled(ref) /\ isRunning)
        ~> \/ ~isRunning
           \/ ref \in BetRefs /\ betObjects[ref].idleAgain

=============================================================================
